---- MODULE Spec2Model ----
(***************************************************************************)
(* The websocket playback driver of asciinema-player                       *)
(* (src/driver/websocket.js): the connection manager (connect, close       *)
(* handling, exponential backoff, stop), the protocol detection on the     *)
(* first message, the three message handlers, reset/offline handling and   *)
(* the clock read by getCurrentTime().                                     *)
(*                                                                         *)
(* The browser's WebSocket and timer queue are the environment: a socket   *)
(* fires open, message and close events, a message event is dispatched     *)
(* only while readyState is OPEN, and pending timers fire in any order.    *)
(* The Buffer (../buffer) and the Clock (../clock) are collaborators       *)
(* whose code is outside the driver; they are modelled by their contract.  *)
(***************************************************************************)
EXTENDS Integers, Sequences, FiniteSets, TLC

\* ------------------------------------------------------------------ bounds

\* unclean closes are explored while reconnectAttempt is below this
MaxAttempt == 3
\* the Buffer's queue holds at most this many pushed items
MaxQueue == 2
\* the backoff function is applied to the attempts 0..MaxDelayAttempt
MaxDelayAttempt == 12

\* --------------------------------------------------------------- JS values

Undefined == [type |-> "undefined", n |-> 0, s |-> <<>>]
Null == [type |-> "null", n |-> 0, s |-> <<>>]
Num(n) == [type |-> "number", n |-> n, s |-> <<>>]
Str(s) == [type |-> "string", n |-> 0, s |-> s]

\* a ?? b
Coalesce(a, b) == IF a.type \in {"undefined", "null"} THEN b ELSE a

Min(a, b) == IF a <= b THEN a ELSE b

RECURSIVE Pow2(_)
Pow2(k) == IF k = 0 THEN 1 ELSE 2 * Pow2(k - 1)

\* decimal digits of a non-negative integer, as character codes
RECURSIVE Digits(_)
Digits(k) == IF k < 10 THEN <<48 + k>> ELSE Digits(k \div 10) \o <<48 + (k % 10)>>

IsDigit(c) == c >= 48 /\ c <= 57

\* parseInt(digits, 10)
RECURSIVE ParseInt(_)
ParseInt(ds) ==
  IF ds = <<>> THEN 0
  ELSE 10 * ParseInt(SubSeq(ds, 1, Len(ds) - 1)) + (ds[Len(ds)] - 48)

\* ------------------------------------------------------------ wire messages

\* event.data is a string (text frame) or an ArrayBuffer (binary frame)
TextMsg(t) == [kind |-> "string", text |-> t, bytes |-> <<>>]
BinMsg(b) == [kind |-> "arraybuffer", text |-> "", bytes |-> b]

JsonReset == "{\"cols\":80,\"rows\":24,\"time\":0}"
JsonResetNoTime == "{\"width\":2,\"height\":1}"
JsonEvent == "[1,\"o\",\"a\"]"
JsonOffline == "{\"status\":\"offline\"}"
JsonOther == "{}"

TextMessages == {JsonReset, JsonResetNoTime, JsonEvent, JsonOffline, JsonOther}

\* 'ALiS', version, compression algorithm
AlisV1 == <<65, 76, 105, 83, 1, 0>>
AlisV1Compressed == <<65, 76, 105, 83, 1, 1>>
AlisV2 == <<65, 76, 105, 83, 2, 0>>
\* 0x01, u16 cols = 80, u16 rows = 24, f32 time = 2.0, u32 len = 0
FrameReset == <<1, 80, 0, 24, 0, 0, 0, 0, 64, 0, 0, 0, 0>>
\* 0x6f, f32 time = 1.0, u32 len = 1, "b"
FrameOutput == <<111, 0, 0, 128, 63, 1, 0, 0, 0, 98>>
\* 0x72, f32 time = 2.0, u16 cols = 2, u16 rows = 1
FrameResize == <<114, 0, 0, 0, 64, 2, 0, 1, 0>>
\* 0x04
FrameOffline == <<4>>
\* ESC [ 8 ; 2 4 ; 8 0 t
RawResizeSeq == <<27, 91, 56, 59, 50, 52, 59, 56, 48, 116>>
\* "hi"
RawPlain == <<104, 105>>
\* [COLUMNS="2" LINES="1"]
RawScriptStart ==
  <<91, 67, 79, 76, 85, 77, 78, 83, 61, 34, 50, 34, 32, 76, 73, 78, 69, 83, 61, 34, 49, 34, 93>>

BinaryMessages ==
  {AlisV1, AlisV1Compressed, AlisV2, FrameReset, FrameOutput, FrameResize,
   FrameOffline, RawResizeSeq, RawPlain, RawScriptStart}

Messages == {TextMsg(t) : t \in TextMessages} \cup {BinMsg(b) : b \in BinaryMessages}

\* ----------------------------------------------------------------- decoding

\* a canonical event [time, kind, data]; data is text as character codes
Event(t, k, d) == [time |-> t, kind |-> k, data |-> d]
NoEvent == Event(Undefined, "", <<>>)

OfflineWord == <<111, 102, 102, 108, 105, 110, 101>>

EmptyObject ==
  [isArray |-> FALSE, event |-> NoEvent, cols |-> Undefined, width |-> Undefined,
   rows |-> Undefined, height |-> Undefined, time |-> Undefined, init |-> Undefined,
   status |-> Undefined]

\* JSON.parse on the text frames of TextMessages
JSONparse(text) ==
  CASE text = JsonReset ->
         [EmptyObject EXCEPT !.cols = Num(80), !.rows = Num(24), !.time = Num(0)]
    [] text = JsonResetNoTime ->
         [EmptyObject EXCEPT !.width = Num(2), !.height = Num(1)]
    [] text = JsonEvent ->
         [EmptyObject EXCEPT !.isArray = TRUE, !.event = Event(Num(1), "o", <<97>>)]
    [] text = JsonOffline ->
         [EmptyObject EXCEPT !.status = Str(OfflineWord)]
    [] OTHER -> EmptyObject

\* DataView.getUint8 / getUint16 / getUint32 (little-endian) at a 0-based offset
getUint8(b, off) == b[off + 1]
getUint16(b, off) == b[off + 1] + 256 * b[off + 2]
getUint32(b, off) ==
  b[off + 1] + 256 * b[off + 2] + 65536 * b[off + 3] + 16777216 * b[off + 4]

\* DataView.getFloat32 (little-endian), for the bit patterns of whole numbers
getFloat32(b, off) ==
  LET e == (b[off + 4] % 128) * 2 + (b[off + 3] \div 128)
      m == (b[off + 3] % 128) * 65536 + b[off + 2] * 256 + b[off + 1]
  IN IF e = 0 /\ m = 0 THEN 0
     ELSE IF e >= 150 THEN (8388608 + m) * Pow2(e - 150)
     ELSE (8388608 + m) \div Pow2(150 - e)

\* TextDecoder.decode: UTF-8 bytes to code points (1- and 2-byte sequences)
RECURSIVE utfDecode(_)
utfDecode(b) ==
  IF b = <<>> THEN <<>>
  ELSE IF b[1] < 128 THEN <<b[1]>> \o utfDecode(Tail(b))
  ELSE IF b[1] >= 192 /\ b[1] < 224 /\ Len(b) >= 2 /\ b[2] >= 128 /\ b[2] < 192
    THEN <<(b[1] - 192) * 64 + (b[2] - 128)>> \o utfDecode(Tail(Tail(b)))
  ELSE <<65533>> \o utfDecode(Tail(b))

\* the index after the run of digits that starts at i
RECURSIVE DigitsEnd(_, _)
DigitsEnd(text, i) ==
  IF i <= Len(text) /\ IsDigit(text[i]) THEN DigitsEnd(text, i + 1) ELSE i

HasAt(text, i, word) ==
  /\ i >= 1
  /\ i + Len(word) - 1 <= Len(text)
  /\ SubSeq(text, i, i + Len(word) - 1) = word

NoSize == [found |-> FALSE, cols |-> 0, rows |-> 0]

\* /\x1b\[8;(\d+);(\d+)t/ matched at position i
ResizeSeqAt(text, i) ==
  LET j == DigitsEnd(text, i + 4)
      k == DigitsEnd(text, j + 1)
  IN /\ HasAt(text, i, <<27, 91, 56, 59>>)
     /\ j > i + 4
     /\ HasAt(text, j, <<59>>)
     /\ k > j + 1
     /\ HasAt(text, k, <<116>>)

sizeFromResizeSeq(text) ==
  LET at == {i \in 1..Len(text) : ResizeSeqAt(text, i)}
  IN IF at = {} THEN NoSize
     ELSE LET i == CHOOSE x \in at : \A y \in at : x <= y
              j == DigitsEnd(text, i + 4)
              k == DigitsEnd(text, j + 1)
          IN [found |-> TRUE,
              cols |-> ParseInt(SubSeq(text, j + 1, k - 1)),
              rows |-> ParseInt(SubSeq(text, i + 4, j - 1))]

ColumnsWord == <<67, 79, 76, 85, 77, 78, 83, 61, 34>>
LinesWord == <<34, 32, 76, 73, 78, 69, 83, 61, 34>>

\* COLUMNS="(\d{1,3})" LINES="(\d{1,3})" matched at position i
ColumnsLinesAt(text, i) ==
  LET c == i + Len(ColumnsWord)
      j == DigitsEnd(text, c)
      l == j + Len(LinesWord)
      k == DigitsEnd(text, l)
  IN /\ HasAt(text, i, ColumnsWord)
     /\ j > c /\ j - c <= 3
     /\ HasAt(text, j, LinesWord)
     /\ k > l /\ k - l <= 3
     /\ HasAt(text, k, <<34>>)

SameLine(text, i, j) == \A x \in i..j : text[x] # 10 /\ text[x] # 13

\* /\[.*COLUMNS="(\d{1,3})" LINES="(\d{1,3})".*\]/
ScriptStartAt(text, open, i) ==
  /\ text[open] = 91
  /\ open < i
  /\ ColumnsLinesAt(text, i)
  /\ \E close \in (i + 1)..Len(text) :
       /\ close > DigitsEnd(text, DigitsEnd(text, i + Len(ColumnsWord)) + Len(LinesWord))
       /\ text[close] = 93
       /\ SameLine(text, open, close)

sizeFromScriptStartMessage(text) ==
  LET opens == {o \in 1..Len(text) : \E i \in 1..Len(text) : ScriptStartAt(text, o, i)}
  IN IF opens = {} THEN NoSize
     ELSE LET open == CHOOSE x \in opens : \A y \in opens : x <= y
              at == {i \in 1..Len(text) : ScriptStartAt(text, open, i)}
              i == CHOOSE x \in at : \A y \in at : x >= y
              c == i + Len(ColumnsWord)
              j == DigitsEnd(text, c)
              l == j + Len(LinesWord)
              k == DigitsEnd(text, l)
          IN [found |-> TRUE,
              cols |-> ParseInt(SubSeq(text, c, j - 1)),
              rows |-> ParseInt(SubSeq(text, l, k - 1))]

\* ------------------------------------------------------------- driver state

VARIABLES
  socket,                       \* let socket: its readyState and onmessage handler
  buf,                          \* let buf: the Buffer held by the driver
  clock,                        \* let clock
  reconnectAttempt,             \* let reconnectAttempt
  successfulConnectionTimeout,  \* let successfulConnectionTimeout: a timer id, 0 when undefined
  stop,                         \* let stop
  timers,                       \* the pending setTimeout callbacks
  activeBuffers,                \* the Buffers created and not yet stopped
  state,                        \* the arguments of the last setState call
  log,                          \* the calls made by the last handler, in order
  lastOp,                       \* the handler that ran last, with its event
  delayArgs,                    \* two attempt numbers given to the backoff function
  delays                        \* its results for them, <<>> before it is applied

vars ==
  <<socket, buf, clock, reconnectAttempt, successfulConnectionTimeout, stop, timers,
    activeBuffers, state, log, lastOp, delayArgs, delays>>

\* the closure state as one record, threaded through the statements of a handler
Cur ==
  [socket |-> socket, buf |-> buf, clock |-> clock,
   reconnectAttempt |-> reconnectAttempt,
   successfulConnectionTimeout |-> successfulConnectionTimeout,
   stop |-> stop, timers |-> timers, activeBuffers |-> activeBuffers,
   state |-> state, log |-> <<>>]

Call(c, name, detail, vals) == [call |-> c, name |-> name, detail |-> detail, vals |-> vals]

Logged(d, c) == [d EXCEPT !.log = Append(@, c)]

\* ------------------------------------------------ collaborators: Clock, Buffer

\* new NullClock(): getTime() returns undefined, setTime() does nothing
NullClock == [active |-> FALSE, time |-> Undefined]
\* new Clock(): an active clock, reading 0 until it is set
Clock == [active |-> TRUE, time |-> Num(0)]

clockSetTime(c, t) == IF c.active THEN [c EXCEPT !.time = t] ELSE c
clockGetTime(c) == IF c.active THEN c.time ELSE Undefined

NoBuffer == [defined |-> FALSE, stopped |-> FALSE, baseStreamTime |-> Undefined, queue |-> <<>>]

\* getBuffer(feed, setTime, bufferTime, baseStreamTime, minFrameTime)
getBuffer(baseStreamTime) ==
  [defined |-> TRUE, stopped |-> FALSE, baseStreamTime |-> baseStreamTime, queue |-> <<>>]

\* buf.stop()
bufStop(d) ==
  Logged([d EXCEPT !.buf.stopped = TRUE,
                   !.activeBuffers = IF d.buf.stopped THEN @ ELSE @ - 1],
         Call("buf.stop", "", "", <<>>))

\* buf.pushEvent(event)
bufPushEvent(d, e) ==
  Logged([d EXCEPT !.buf.queue = IF d.buf.stopped THEN @ ELSE Append(@, e)],
         Call("buf.pushEvent", e.kind, "", <<e.time, Str(e.data)>>))

\* buf.pushText(text): the text is queued as output at the Buffer's own time
bufPushText(d, text) ==
  Logged([d EXCEPT !.buf.queue =
                     IF d.buf.stopped THEN @
                     ELSE Append(@, Event(Coalesce(d.buf.baseStreamTime, Num(0)), "o", text))],
         Call("buf.pushText", "", "", <<Str(text)>>))

\* -------------------------------------------------------------- the driver

\* variant: the delay grows by 500 per attempt instead of doubling
exponentialDelay_Linear(attempt) == Min(500 * (attempt + 1), 5000)

exponentialDelay(attempt) == Min(500 * Pow2(attempt), 5000)

\* the reconnectDelay option, by default exponentialDelay
reconnectDelay(attempt) == exponentialDelay(attempt)

setState(d, name, reason) ==
  Logged([d EXCEPT !.state = [name |-> name, reason |-> reason]],
         Call("setState", name, reason, <<>>))

\* variant: the Buffer held is replaced without being stopped
initBuffer_KeepsPrevious(d, baseStreamTime) ==
  Logged([d EXCEPT !.buf = getBuffer(baseStreamTime), !.activeBuffers = @ + 1],
         Call("getBuffer", "", "", <<baseStreamTime>>))

initBuffer(d, baseStreamTime) ==
  LET d1 == IF d.buf.defined THEN bufStop(d) ELSE d
  IN Logged([d1 EXCEPT !.buf = getBuffer(baseStreamTime), !.activeBuffers = @ + 1],
            Call("getBuffer", "", "", <<baseStreamTime>>))

\* variant: reset() is called before the Buffer is replaced
handleResetMessage_ResetFirst(d, cols, rows, time, init) ==
  LET d1 == setState(d, "playing", "")
      d2 == Logged(d1, Call("reset", "", "", <<cols, rows, init>>))
      d3 == initBuffer(d2, time)
      d4 == Logged([d3 EXCEPT !.clock = Clock], Call("new Clock", "", "", <<>>))
  IN IF time.type = "number"
       THEN Logged([d4 EXCEPT !.clock = clockSetTime(@, time)],
                   Call("clock.setTime", "", "", <<time>>))
       ELSE d4

handleResetMessage(d, cols, rows, time, init) ==
  LET d1 == setState(d, "playing", "")
      d2 == initBuffer(d1, time)
      d3 == Logged(d2, Call("reset", "", "", <<cols, rows, init>>))
      d4 == Logged([d3 EXCEPT !.clock = Clock], Call("new Clock", "", "", <<>>))
  IN IF time.type = "number"
       THEN Logged([d4 EXCEPT !.clock = clockSetTime(@, time)],
                   Call("clock.setTime", "", "", <<time>>))
       ELSE d4

\* variant: the clock is left as it is
handleOfflineMessage_KeepsClock(d) == setState(d, "offline", "")

handleOfflineMessage(d) ==
  LET d1 == setState(d, "offline", "")
  IN Logged([d1 EXCEPT !.clock = NullClock], Call("new NullClock", "", "", <<>>))

\* event.data is an array: buf.pushEvent(e); a reset object; an offline object.
\* JSON.parse throws on an ArrayBuffer and the handler ends there.
handleJsonMessage(d, event) ==
  IF event.kind # "string" THEN d
  ELSE LET e == JSONparse(event.text)
       IN IF e.isArray THEN bufPushEvent(d, e.event)
          ELSE IF e.cols.type # "undefined" \/ e.width.type # "undefined"
            THEN handleResetMessage(d, Coalesce(e.cols, e.width), Coalesce(e.rows, e.height),
                                    e.time, Coalesce(e.init, Undefined))
          ELSE IF e.status = Str(OfflineWord) THEN handleOfflineMessage(d)
          ELSE d

\* the bytes a frame of this type reads; a shorter frame throws a RangeError
FrameNeeds(b) ==
  IF Len(b) = 0 THEN 1
  ELSE IF b[1] = 1 THEN IF Len(b) < 13 THEN 13 ELSE 13 + getUint32(b, 9)
  ELSE IF b[1] = 111 THEN IF Len(b) < 9 THEN 9 ELSE 9 + getUint32(b, 5)
  ELSE IF b[1] = 114 THEN 9
  ELSE 1

\* new DataView throws on a string and the handler ends there
handleStreamMessage(d, event) ==
  LET b == event.bytes
      type == getUint8(b, 0)
  IN IF event.kind # "arraybuffer" \/ Len(b) < FrameNeeds(b) THEN d
     ELSE IF type = 1
       THEN LET cols == getUint16(b, 1)
                rows == getUint16(b, 3)
                time == getFloat32(b, 5)
                len == getUint32(b, 9)
                init == IF len > 0 THEN Str(utfDecode(SubSeq(b, 14, 13 + len)))
                        ELSE Undefined
            IN handleResetMessage(d, Num(cols), Num(rows), Num(time), init)
     ELSE IF type = 111
       THEN LET time == getFloat32(b, 1)
                len == getUint32(b, 5)
                text == utfDecode(SubSeq(b, 10, 9 + len))
            IN bufPushEvent(d, Event(Num(time), "o", text))
     ELSE IF type = 114
       THEN LET time == getFloat32(b, 1)
                cols == getUint16(b, 5)
                rows == getUint16(b, 7)
            IN bufPushEvent(d, Event(Num(time), "r", Digits(cols) \o <<120>> \o Digits(rows)))
     ELSE IF type = 4 THEN handleOfflineMessage(d)
     ELSE d

\* TextDecoder.decode throws on a string and the handler ends there
handleRawTextMessage(d, event) ==
  IF event.kind # "arraybuffer" THEN d
  ELSE bufPushText(d, utfDecode(event.bytes))

\* socket.close(): a connecting or open socket starts closing
socketClose(d) ==
  Logged([d EXCEPT !.socket.readyState =
                     IF @ \in {"CONNECTING", "OPEN"} THEN "CLOSING" ELSE @],
         Call("socket.close", "", "", <<>>))

\* arr[i] of a Uint8Array, -1 standing for undefined past the end
ByteAt(b, i) == IF i < Len(b) THEN b[i + 1] ELSE -1

\* variant: a compression algorithm other than 0 is logged but the socket is kept
detectProtocol_KeepsCompressed(d, event) ==
  IF event.kind = "string"
    THEN handleJsonMessage([d EXCEPT !.socket.onmessage = "handleJsonMessage"], event)
  ELSE LET arr == event.bytes
       IN IF ByteAt(arr, 0) = 65 /\ ByteAt(arr, 1) = 76 /\ ByteAt(arr, 2) = 105
             /\ ByteAt(arr, 3) = 83
            THEN IF ByteAt(arr, 4) = 1
                   THEN [d EXCEPT !.socket.onmessage = "handleStreamMessage"]
                   ELSE socketClose(d)
          ELSE LET text == utfDecode(arr)
                   size == IF sizeFromResizeSeq(text).found THEN sizeFromResizeSeq(text)
                           ELSE sizeFromScriptStartMessage(text)
                   d1 == IF size.found
                           THEN handleResetMessage(d, Num(size.cols), Num(size.rows),
                                                   Num(0), Undefined)
                           ELSE d
               IN handleRawTextMessage(
                    [d1 EXCEPT !.socket.onmessage = "handleRawTextMessage"], event)

\* variant: the raw-text branch does not bind handleRawTextMessage
detectProtocol_KeepsSniffing(d, event) ==
  IF event.kind = "string"
    THEN handleJsonMessage([d EXCEPT !.socket.onmessage = "handleJsonMessage"], event)
  ELSE LET arr == event.bytes
       IN IF ByteAt(arr, 0) = 65 /\ ByteAt(arr, 1) = 76 /\ ByteAt(arr, 2) = 105
             /\ ByteAt(arr, 3) = 83
            THEN IF ByteAt(arr, 4) = 1
                   THEN LET compressionAlgo == ByteAt(arr, 5)
                            d1 == IF compressionAlgo = 0 THEN d ELSE socketClose(d)
                        IN [d1 EXCEPT !.socket.onmessage = "handleStreamMessage"]
                   ELSE socketClose(d)
          ELSE LET text == utfDecode(arr)
                   size == IF sizeFromResizeSeq(text).found THEN sizeFromResizeSeq(text)
                           ELSE sizeFromScriptStartMessage(text)
                   d1 == IF size.found
                           THEN handleResetMessage(d, Num(size.cols), Num(size.rows),
                                                   Num(0), Undefined)
                           ELSE d
               IN handleRawTextMessage(d1, event)

\* variant: the text message used for detection is not given to the JSON handler
detectProtocol_DropsFirst(d, event) ==
  IF event.kind = "string"
    THEN [d EXCEPT !.socket.onmessage = "handleJsonMessage"]
  ELSE LET arr == event.bytes
       IN IF ByteAt(arr, 0) = 65 /\ ByteAt(arr, 1) = 76 /\ ByteAt(arr, 2) = 105
             /\ ByteAt(arr, 3) = 83
            THEN IF ByteAt(arr, 4) = 1
                   THEN LET compressionAlgo == ByteAt(arr, 5)
                            d1 == IF compressionAlgo = 0 THEN d ELSE socketClose(d)
                        IN [d1 EXCEPT !.socket.onmessage = "handleStreamMessage"]
                   ELSE socketClose(d)
          ELSE LET text == utfDecode(arr)
                   size == IF sizeFromResizeSeq(text).found THEN sizeFromResizeSeq(text)
                           ELSE sizeFromScriptStartMessage(text)
                   d1 == IF size.found
                           THEN handleResetMessage(d, Num(size.cols), Num(size.rows),
                                                   Num(0), Undefined)
                           ELSE d
               IN handleRawTextMessage(
                    [d1 EXCEPT !.socket.onmessage = "handleRawTextMessage"], event)

\* variant: the raw text is pushed before the sniffed reset is handled
detectProtocol_PushesBeforeReset(d, event) ==
  IF event.kind = "string"
    THEN handleJsonMessage([d EXCEPT !.socket.onmessage = "handleJsonMessage"], event)
  ELSE LET arr == event.bytes
       IN IF ByteAt(arr, 0) = 65 /\ ByteAt(arr, 1) = 76 /\ ByteAt(arr, 2) = 105
             /\ ByteAt(arr, 3) = 83
            THEN IF ByteAt(arr, 4) = 1
                   THEN LET compressionAlgo == ByteAt(arr, 5)
                            d1 == IF compressionAlgo = 0 THEN d ELSE socketClose(d)
                        IN [d1 EXCEPT !.socket.onmessage = "handleStreamMessage"]
                   ELSE socketClose(d)
          ELSE LET text == utfDecode(arr)
                   size == IF sizeFromResizeSeq(text).found THEN sizeFromResizeSeq(text)
                           ELSE sizeFromScriptStartMessage(text)
                   d1 == handleRawTextMessage(
                           [d EXCEPT !.socket.onmessage = "handleRawTextMessage"], event)
               IN IF size.found
                    THEN handleResetMessage(d1, Num(size.cols), Num(size.rows),
                                            Num(0), Undefined)
                    ELSE d1

detectProtocol(d, event) ==
  IF event.kind = "string"
    THEN handleJsonMessage([d EXCEPT !.socket.onmessage = "handleJsonMessage"], event)
  ELSE LET arr == event.bytes
       IN IF ByteAt(arr, 0) = 65 /\ ByteAt(arr, 1) = 76 /\ ByteAt(arr, 2) = 105
             /\ ByteAt(arr, 3) = 83
            THEN IF ByteAt(arr, 4) = 1
                   THEN LET compressionAlgo == ByteAt(arr, 5)
                            d1 == IF compressionAlgo = 0 THEN d ELSE socketClose(d)
                        IN [d1 EXCEPT !.socket.onmessage = "handleStreamMessage"]
                   ELSE socketClose(d)
          ELSE LET text == utfDecode(arr)
                   size == IF sizeFromResizeSeq(text).found THEN sizeFromResizeSeq(text)
                           ELSE sizeFromScriptStartMessage(text)
                   d1 == IF size.found
                           THEN handleResetMessage(d, Num(size.cols), Num(size.rows),
                                                   Num(0), Undefined)
                           ELSE d
               IN handleRawTextMessage(
                    [d1 EXCEPT !.socket.onmessage = "handleRawTextMessage"], event)

\* the call of socket.onmessage
onmessage(d, event) ==
  CASE d.socket.onmessage = "detectProtocol" -> detectProtocol(d, event)
    [] d.socket.onmessage = "handleJsonMessage" -> handleJsonMessage(d, event)
    [] d.socket.onmessage = "handleStreamMessage" -> handleStreamMessage(d, event)
    [] d.socket.onmessage = "handleRawTextMessage" -> handleRawTextMessage(d, event)

\* ------------------------------------------------------------------ timers

StabilityDelay == 1000

\* the id setTimeout returns: one that no pending timer and no kept handle has
NewTimerId(d) ==
  CHOOSE i \in 1..(Cardinality(d.timers) + 2) :
    /\ i # d.successfulConnectionTimeout
    /\ \A t \in d.timers : t.id # i
    /\ \A j \in 1..(i - 1) : j = d.successfulConnectionTimeout \/ \E t \in d.timers : t.id = j

setTimeout(d, fn, delay) ==
  Logged([d EXCEPT !.timers = @ \cup {[id |-> NewTimerId(d), fn |-> fn, delay |-> delay]}],
         Call("setTimeout", fn, "", <<Num(delay)>>))

clearTimeout(d, id) ==
  Logged([d EXCEPT !.timers = {t \in @ : t.id # id}], Call("clearTimeout", "", "", <<>>))

\* ------------------------------------------------------ connection manager

\* first: what the first message this socket delivered was, "none" before it
NoSocket == [readyState |-> "UNDEFINED", onmessage |-> "detectProtocol", first |-> "none"]

connect(d) ==
  Logged([d EXCEPT !.socket = [readyState |-> "CONNECTING", onmessage |-> "detectProtocol",
                               first |-> "none"]],
         Call("new WebSocket", "", "", <<>>))

\* variant: the open handler reports 'playing'
onopen_SetsPlaying(d) ==
  LET d1 == initBuffer(setState(d, "playing", ""), Undefined)
      id == NewTimerId(d1)
  IN [setTimeout(d1, "resetReconnectAttempt", StabilityDelay)
        EXCEPT !.successfulConnectionTimeout = id]

\* variant: the open handler installs an active Clock
onopen_NewClock(d) ==
  LET d1 == initBuffer(d, Undefined)
      d2 == Logged([d1 EXCEPT !.clock = Clock], Call("new Clock", "", "", <<>>))
      id == NewTimerId(d2)
  IN [setTimeout(d2, "resetReconnectAttempt", StabilityDelay)
        EXCEPT !.successfulConnectionTimeout = id]

onopen(d) ==
  LET d1 == initBuffer(d, Undefined)
      id == NewTimerId(d1)
  IN [setTimeout(d1, "resetReconnectAttempt", StabilityDelay)
        EXCEPT !.successfulConnectionTimeout = id]

\* variant: only code 1000 counts as a clean close
onclose_Only1000(d, code) ==
  IF d.stop \/ code = 1000
    THEN setState(d, "stopped", "ended")
  ELSE LET d1 == clearTimeout(d, d.successfulConnectionTimeout)
           delay == reconnectDelay(d1.reconnectAttempt)
           d2 == [d1 EXCEPT !.reconnectAttempt = @ + 1]
           d3 == setState(d2, "loading", "")
       IN setTimeout(d3, "connect", delay)

\* variant: reconnectDelay(++reconnectAttempt)
onclose_PreIncrement(d, code) ==
  IF d.stop \/ code = 1000 \/ code = 1005
    THEN setState(d, "stopped", "ended")
  ELSE LET d1 == clearTimeout(d, d.successfulConnectionTimeout)
           d2 == [d1 EXCEPT !.reconnectAttempt = @ + 1]
           delay == reconnectDelay(d2.reconnectAttempt)
           d3 == setState(d2, "loading", "")
       IN setTimeout(d3, "connect", delay)

\* variant: the reconnect is scheduled after the branches, for every close
onclose_AlwaysReconnects(d, code) ==
  LET delay == reconnectDelay(d.reconnectAttempt)
  IN IF d.stop \/ code = 1000 \/ code = 1005
       THEN setTimeout(setState(d, "stopped", "ended"), "connect", delay)
     ELSE LET d1 == clearTimeout(d, d.successfulConnectionTimeout)
              d2 == [d1 EXCEPT !.reconnectAttempt = @ + 1]
              d3 == setState(d2, "loading", "")
          IN setTimeout(d3, "connect", delay)

\* variant: an unclean close schedules connect() twice
onclose_ReconnectsTwice(d, code) ==
  IF d.stop \/ code = 1000 \/ code = 1005
    THEN setState(d, "stopped", "ended")
  ELSE LET d1 == clearTimeout(d, d.successfulConnectionTimeout)
           delay == reconnectDelay(d1.reconnectAttempt)
           d2 == [d1 EXCEPT !.reconnectAttempt = @ + 1]
           d3 == setState(d2, "loading", "")
       IN setTimeout(setTimeout(d3, "connect", delay), "connect", delay)

\* variant: an unclean close leaves the stability timer running
onclose_KeepsStabilityTimer(d, code) ==
  IF d.stop \/ code = 1000 \/ code = 1005
    THEN setState(d, "stopped", "ended")
  ELSE LET delay == reconnectDelay(d.reconnectAttempt)
           d2 == [d EXCEPT !.reconnectAttempt = @ + 1]
           d3 == setState(d2, "loading", "")
       IN setTimeout(d3, "connect", delay)

onclose(d, code) ==
  IF d.stop \/ code = 1000 \/ code = 1005
    THEN setState(d, "stopped", "ended")
  ELSE LET d1 == clearTimeout(d, d.successfulConnectionTimeout)
           delay == reconnectDelay(d1.reconnectAttempt)
           d2 == [d1 EXCEPT !.reconnectAttempt = @ + 1]
           d3 == setState(d2, "loading", "")
       IN setTimeout(d3, "connect", delay)

\* the stability timer's callback
resetReconnectAttempt(d) == [d EXCEPT !.reconnectAttempt = 0]

play(d) == connect(d)

stopDriver(d) ==
  LET d1 == [d EXCEPT !.stop = TRUE]
      d2 == IF d1.buf.defined THEN bufStop(d1) ELSE d1
  IN IF d2.socket.readyState # "UNDEFINED" THEN socketClose(d2) ELSE d2

getCurrentTime == clockGetTime(clock)

\* the time-report callback given to getBuffer: (t) => clock.setTime(t)
setTime(d, t) ==
  Logged([d EXCEPT !.clock = clockSetTime(@, t)], Call("clock.setTime", "", "", <<t>>))

\* the Buffer emits its oldest item: feed(event), then the time report
bufEmit(d) ==
  LET e == Head(d.buf.queue)
      d1 == Logged([d EXCEPT !.buf.queue = Tail(@)],
                   Call("feed", e.kind, "", <<e.time, Str(e.data)>>))
  IN setTime(d1, e.time)

\* ----------------------------------------------------------------- actions

CloseCodes == {1000, 1001, 1005, 1006}

NoData == [kind |-> "none", text |-> "", bytes |-> <<>>]
Op(name, code, data) == [op |-> name, code |-> code, data |-> data]

Commit(d, op) ==
  /\ socket' = d.socket
  /\ buf' = d.buf
  /\ clock' = d.clock
  /\ reconnectAttempt' = d.reconnectAttempt
  /\ successfulConnectionTimeout' = d.successfulConnectionTimeout
  /\ stop' = d.stop
  /\ timers' = d.timers
  /\ activeBuffers' = d.activeBuffers
  /\ state' = d.state
  /\ log' = d.log
  /\ lastOp' = op
  /\ UNCHANGED <<delayArgs, delays>>

Constructed ==
  /\ socket = NoSocket
  /\ buf = NoBuffer
  /\ clock = NullClock
  /\ reconnectAttempt = 0
  /\ successfulConnectionTimeout = 0
  /\ stop = FALSE
  /\ timers = {}
  /\ activeBuffers = 0
  /\ state = [name |-> "none", reason |-> ""]
  /\ log = <<>>
  /\ lastOp = Op("init", 0, NoData)

Init ==
  /\ Constructed
  /\ delayArgs = <<0, 0>>
  /\ delays = <<>>

\* play() is called once, on a driver that was not stopped
Play ==
  /\ socket.readyState = "UNDEFINED"
  /\ ~stop
  /\ Commit(play(Cur), Op("play", 0, NoData))

\* stop() may be called at any time, and again
Stop ==
  /\ stop \in BOOLEAN
  /\ Commit(stopDriver(Cur), Op("stop", 0, NoData))

SocketOpen ==
  /\ socket.readyState = "CONNECTING"
  /\ Commit(onopen([Cur EXCEPT !.socket.readyState = "OPEN"]), Op("onopen", 0, NoData))

\* what a socket's first message is: a text frame, an ALiS header (version 1
\* without compression, version 1 with a compression algorithm, another
\* version), raw bytes with or without terminal geometry
FirstMessage(m) ==
  IF m.kind = "string" THEN "json"
  ELSE IF HasAt(m.bytes, 1, <<65, 76, 105, 83>>)
    THEN IF ByteAt(m.bytes, 4) # 1 THEN "version"
         ELSE IF ByteAt(m.bytes, 5) # 0 THEN "compression"
         ELSE "alis"
  ELSE IF sizeFromResizeSeq(utfDecode(m.bytes)).found
          \/ sizeFromScriptStartMessage(utfDecode(m.bytes)).found
    THEN "geometry"
  ELSE "raw"

\* a message event is dispatched only while the socket is open
SocketMessage ==
  \E m \in Messages :
    /\ socket.readyState = "OPEN"
    /\ LET d == onmessage([Cur EXCEPT !.socket.first =
                                       IF @ = "none" THEN FirstMessage(m) ELSE @], m)
       IN /\ Len(d.buf.queue) <= MaxQueue
          /\ Commit(d, Op("onmessage", 0, m))

\* the close event: of a failed connection, of a closing handshake, of a drop
SocketClose ==
  \E code \in CloseCodes :
    /\ socket.readyState \in {"CONNECTING", "OPEN", "CLOSING"}
    /\ (~stop /\ code \notin {1000, 1005}) => reconnectAttempt < MaxAttempt
    /\ Commit(onclose([Cur EXCEPT !.socket.readyState = "CLOSED"], code),
              Op("onclose", code, NoData))

StabilityTimeout ==
  \E t \in timers :
    /\ t.fn = "resetReconnectAttempt"
    /\ Commit(resetReconnectAttempt([Cur EXCEPT !.timers = @ \ {t}]),
              Op("resetReconnectAttempt", 0, NoData))

ReconnectTimeout ==
  \E t \in timers :
    /\ t.fn = "connect"
    /\ Commit(connect([Cur EXCEPT !.timers = @ \ {t}]), Op("connect", 0, NoData))

BufferEmit ==
  /\ buf.defined
  /\ ~buf.stopped
  /\ buf.queue # <<>>
  /\ Commit(bufEmit(Cur), Op("bufEmit", 0, NoData))

Next ==
  \/ Play
  \/ Stop
  \/ SocketOpen
  \/ SocketMessage
  \/ SocketClose
  \/ StabilityTimeout
  \/ ReconnectTimeout
  \/ BufferEmit

Spec == Init /\ [][Next]_vars

\* the backoff function on its own: any two attempts, then its results
InitDelay ==
  /\ Constructed
  /\ delayArgs \in (0..MaxDelayAttempt) \X (0..MaxDelayAttempt)
  /\ delays = <<>>

ApplyDelay ==
  /\ delays = <<>>
  /\ delays' = <<exponentialDelay(delayArgs[1]), exponentialDelay(delayArgs[2])>>
  /\ UNCHANGED <<socket, buf, clock, reconnectAttempt, successfulConnectionTimeout, stop,
                 timers, activeBuffers, state, log, lastOp, delayArgs>>

NextDelay == ApplyDelay

SpecDelay == InitDelay /\ [][NextDelay]_vars

\* ------------------------------------------------------------------ claims

HasCall(l, c) == \E i \in 1..Len(l) : l[i].call = c
HasSetState(l, name) == \E i \in 1..Len(l) : l[i].call = "setState" /\ l[i].name = name
ConnectTimers(ts) == {t \in ts : t.fn = "connect"}
StabilityTimers(ts) == {t \in ts : t.fn = "resetReconnectAttempt"}
Stopped == [name |-> "stopped", reason |-> "ended"]
CleanCode(code) == code = 1000 \/ code = 1005

\* the close event that answers socket.close()
CloseRequestAnswered ==
  /\ socket.readyState = "CLOSING"
  /\ SocketClose

\* every close request is answered by a close event, timers fire, and a
\* connection attempt ends (it opens or fails)
SpecFair ==
  /\ Spec
  /\ WF_vars(CloseRequestAnswered)
  /\ WF_vars(ReconnectTimeout)
  /\ WF_vars(StabilityTimeout)
  /\ WF_vars(SocketOpen)

\* C1: after stop() has been called no further setState, feed or reset callback
\* is invoked, whatever follows (timers firing, messages, the close event). The
\* setState('stopped', {reason: 'ended'}) of the close event, which C3 asks for
\* while the stop flag is set, is not counted as a further callback here.
C1_NoCallbackAfterStop ==
  [][stop =>
       \A i \in 1..Len(log') :
         \/ log'[i].call \notin {"setState", "feed", "reset"}
         \/ /\ lastOp'.op = "onclose"
            /\ log'[i] = Call("setState", "stopped", "ended", <<>>)]_vars

\* C2: once stop() has been called, connect() never runs again and no new socket
\* is opened, also when stop() is called while the reconnect timer is pending.
C2_NoConnectAfterStop == [][stop => ~HasCall(log', "new WebSocket")]_vars

\* C3: a close with code 1000 or 1005, or any close while the stop flag is set,
\* reports setState('stopped', {reason: 'ended'}) and nothing else, schedules no
\* timer, leaves the attempt counter as it was, and no connect() follows it.
C3_CleanCloseStops ==
  /\ [][(lastOp'.op = "onclose" /\ (stop \/ CleanCode(lastOp'.code))) =>
          /\ log' = <<Call("setState", "stopped", "ended", <<>>)>>
          /\ state' = Stopped
          /\ timers' = timers
          /\ ConnectTimers(timers') = {}
          /\ reconnectAttempt' = reconnectAttempt]_vars
  /\ [][state = Stopped => ~HasCall(log', "new WebSocket")]_vars

\* a clean close, without stop(), after two unclean closes in a row
C3_Witness ==
  /\ lastOp = Op("onclose", 1000, NoData)
  /\ ~stop
  /\ reconnectAttempt >= 2
  /\ state = Stopped

\* C4: an unclean close (code other than 1000 and 1005) while the stop flag is
\* not set cancels the stability timer, takes the delay reconnectDelay(n) of the
\* attempt counter n before the close, makes the counter n + 1, reports
\* setState('loading') and schedules exactly one connect() after that delay;
\* code 1006 at attempt 0 schedules it after 500.
C4_UncleanCloseReconnects ==
  [][(lastOp'.op = "onclose" /\ ~stop /\ ~CleanCode(lastOp'.code)) =>
       /\ StabilityTimers(timers') = {}
       /\ log' = <<Call("clearTimeout", "", "", <<>>),
                   Call("setState", "loading", "", <<>>),
                   Call("setTimeout", "connect", "", <<Num(reconnectDelay(reconnectAttempt))>>)>>
       /\ reconnectAttempt' = reconnectAttempt + 1
       /\ state' = [name |-> "loading", reason |-> ""]
       /\ Cardinality(ConnectTimers(timers')) = 1
       /\ \A t \in ConnectTimers(timers') : t.delay = reconnectDelay(reconnectAttempt)
       /\ (lastOp'.code = 1006 /\ reconnectAttempt = 0) =>
            \A t \in ConnectTimers(timers') : t.delay = 500]_vars

\* code 1006 on an open socket at attempt 0: loading, one reconnect after 500
C4_Witness ==
  /\ lastOp = Op("onclose", 1006, NoData)
  /\ reconnectAttempt = 1
  /\ state.name = "loading"
  /\ buf.defined
  /\ \E t \in timers : t.fn = "connect" /\ t.delay = 500

\* C5: the default backoff function is min(500 * 2^attempt, 5000): never above
\* 5000, non-decreasing and strictly increasing below the cap, 5000 from attempt
\* 4 on, and 500, 1000, 2000, 4000, 5000, 5000 for the attempts 0..5.
C5_BackoffSchedule ==
  delays # <<>> =>
    LET a == delayArgs[1]
        b == delayArgs[2]
    IN /\ delays[1] = Min(500 * 2^a, 5000)
       /\ delays[1] >= 500 /\ delays[1] <= 5000
       /\ a <= b => delays[1] <= delays[2]
       /\ (a < b /\ delays[2] < 5000) => delays[1] < delays[2]
       /\ a >= 4 => delays[1] = 5000
       /\ a <= 5 => delays[1] = <<500, 1000, 2000, 4000, 5000, 5000>>[a + 1]

\* the function applied to attempt 3 (below the cap) and attempt 5 (capped)
C5_Witness == delayArgs = <<3, 5>> /\ delays = <<4000, 5000>>

\* C6: setState('stopped') is reported only by a close event with the stop flag
\* set or with code 1000 or 1005, and once it has been reported no further
\* setState call of any kind occurs.
C6_StoppedIsTerminal ==
  /\ [][HasSetState(log', "stopped") =>
          /\ lastOp'.op = "onclose"
          /\ stop \/ CleanCode(lastOp'.code)]_vars
  /\ [][state.name = "stopped" => ~HasCall(log', "setState")]_vars

\* after a clean close reported 'stopped', the Buffer (not stopped) still emits
C6_Witness ==
  /\ state = Stopped
  /\ ~stop
  /\ lastOp.op = "bufEmit"
  /\ HasCall(log, "feed")

\* the handler a message is given to treats it as an offline message
IsOffline(handler, m) ==
  \/ /\ handler \in {"detectProtocol", "handleJsonMessage"}
     /\ m = TextMsg(JsonOffline)
  \/ /\ handler = "handleStreamMessage"
     /\ m = BinMsg(FrameOffline)

\* C7: an offline message (the 0x04 frame, the JSON offline object) reports
\* setState('offline') and makes getCurrentTime() absent, and it stays absent
\* until a reset is handled, whatever the Buffer reports in between.
C7_OfflineClearsClock ==
  /\ [][(lastOp'.op = "onmessage" /\ IsOffline(socket.onmessage, lastOp'.data)) =>
          /\ HasSetState(log', "offline")
          /\ state' = [name |-> "offline", reason |-> ""]
          /\ clockGetTime(clock') = Undefined]_vars
  /\ [][(clockGetTime(clock) = Undefined /\ ~HasCall(log', "reset")) =>
          clockGetTime(clock') = Undefined]_vars

\* the Buffer reports a time after the 0x04 frame and the time stays absent
C7_Witness ==
  /\ state.name = "offline"
  /\ socket.onmessage = "handleStreamMessage"
  /\ lastOp.op = "bufEmit"
  /\ HasCall(log, "clock.setTime")
  /\ getCurrentTime = Undefined

\* the calls of one reset, in order
ResetCalls(hadBuf, cols, rows, time, init) ==
  <<Call("setState", "playing", "", <<>>)>>
  \o (IF hadBuf THEN <<Call("buf.stop", "", "", <<>>)>> ELSE <<>>)
  \o <<Call("getBuffer", "", "", <<time>>),
       Call("reset", "", "", <<cols, rows, init>>),
       Call("new Clock", "", "", <<>>)>>
  \o (IF time.type = "number" THEN <<Call("clock.setTime", "", "", <<time>>)>> ELSE <<>>)

\* the handler's calls start with the calls of a reset with these arguments,
\* and it leaves the state playing, a fresh Buffer based at time, an active Clock
ResetDone(hadBuf, cols, rows, time, init) ==
  LET calls == ResetCalls(hadBuf, cols, rows, time, init)
  IN /\ Len(log') >= Len(calls)
     /\ SubSeq(log', 1, Len(calls)) = calls
     /\ state'.name = "playing"
     /\ buf'.defined /\ ~buf'.stopped /\ buf'.baseStreamTime = time
     /\ clock'.active
     /\ time.type = "number" => clockGetTime(clock') = time

\* C8: a reset performs, in order, setState('playing'), stop of the previous
\* Buffer and creation of one based at the reset's time, reset(cols, rows, init),
\* a fresh active Clock set to the time when it is a number; after the JSON
\* message {cols: 80, rows: 24, time: 0} reset has received (80, 24), the state
\* is playing and getCurrentTime() is 0.
C8_ResetOrder ==
  /\ [][HasCall(log', "reset") =>
          \E i \in 2..Len(log') :
            /\ log'[i].call = "reset"
            /\ log'[i - 1].call = "getBuffer"
            /\ ResetDone(buf.defined, log'[i].vals[1], log'[i].vals[2],
                         log'[i - 1].vals[1], log'[i].vals[3])]_vars
  /\ [][(lastOp' = Op("onmessage", 0, TextMsg(JsonReset))
         /\ socket.onmessage \in {"detectProtocol", "handleJsonMessage"}) =>
          /\ ResetDone(buf.defined, Num(80), Num(24), Num(0), Undefined)
          /\ clockGetTime(clock') = Num(0)]_vars
  /\ [][(lastOp' = Op("onmessage", 0, TextMsg(JsonResetNoTime))
         /\ socket.onmessage \in {"detectProtocol", "handleJsonMessage"}) =>
          ResetDone(buf.defined, Num(2), Num(1), Undefined, Undefined)]_vars

\* the JSON reset arrives while an earlier stream's clock reads another time
C8_Witness ==
  /\ lastOp = Op("onmessage", 0, TextMsg(JsonReset))
  /\ socket.onmessage = "handleJsonMessage"
  /\ state.name = "playing"
  /\ getCurrentTime = Num(0)
  /\ Len(log) = 6
  /\ log[4] = Call("reset", "", "", <<Num(80), Num(24), Undefined>>)

\* the handler a message is given to treats it as a reset
IsReset(handler, m) ==
  \/ /\ handler \in {"detectProtocol", "handleJsonMessage"}
     /\ m.kind = "string"
     /\ m.text \in {JsonReset, JsonResetNoTime}
  \/ /\ handler = "handleStreamMessage"
     /\ m.kind = "arraybuffer"
     /\ ByteAt(m.bytes, 0) = 1
  \/ /\ handler = "detectProtocol"
     /\ m.kind = "arraybuffer"
     /\ SubSeq(m.bytes, 1, Min(4, Len(m.bytes))) # <<65, 76, 105, 83>>
     /\ \/ sizeFromResizeSeq(utfDecode(m.bytes)).found
        \/ sizeFromScriptStartMessage(utfDecode(m.bytes)).found

\* C9: setState('playing') is issued only by handling a reset (a JSON reset
\* object, a 0x01 frame, the reset synthesized from raw-text geometry), once per
\* reset: never by play(), the socket opening, a timer or another message.
C9_PlayingOnlyOnReset ==
  [][HasSetState(log', "playing") =>
       /\ lastOp'.op = "onmessage"
       /\ IsReset(socket.onmessage, lastOp'.data)
       /\ Cardinality({i \in 1..Len(log') : log'[i].call = "setState"}) = 1
       /\ Cardinality({i \in 1..Len(log') : log'[i].call = "reset"}) = 1]_vars

\* playing after the reset synthesized from a raw-text resize sequence
C9_Witness ==
  /\ state.name = "playing"
  /\ lastOp = Op("onmessage", 0, BinMsg(RawResizeSeq))
  /\ socket.onmessage = "handleRawTextMessage"

\* C10 as stated: getCurrentTime() is absent before the first reset and whenever
\* the last reported state is loading, offline or stopped.
C10_AbsentUnlessPlaying == state.name # "playing" => getCurrentTime = Undefined

\* C10 amended: getCurrentTime() is absent before the first reset has been
\* handled (the clock becomes active only by a reset) and whenever the last
\* reported state is offline; a socket close leaves the clock as it is, so in
\* loading or stopped the time is absent only if it was absent before the close.
C10_AbsentBeforeResetAndOffline ==
  /\ [](state.name \in {"none", "offline"} => getCurrentTime = Undefined)
  /\ [][(~clock.active /\ clock'.active) => HasCall(log', "reset")]_vars
  /\ [][lastOp'.op = "onclose" => clock' = clock]_vars

\* reconnecting after an unclean close that interrupted a playing stream
C10_Witness ==
  /\ lastOp.op = "onclose"
  /\ state.name = "loading"
  /\ getCurrentTime = Num(2)

\* C11: stop() is idempotent: once the stop flag is set, a further stop() call,
\* at whatever later point, invokes no setState, feed or reset callback and
\* changes nothing of the driver: socket, Buffer, clock, attempt counter, timers
\* and reported state stay what the first stop() and the events since left.
C11_SecondStopChangesNothing ==
  [][(stop /\ lastOp'.op = "stop") =>
       /\ \A i \in 1..Len(log') : log'[i].call \notin {"setState", "feed", "reset"}
       /\ UNCHANGED <<socket, buf, clock, reconnectAttempt, successfulConnectionTimeout,
                      stop, timers, activeBuffers, state>>]_vars

\* C12: when the first binary message of a socket is an ALiS header of a version
\* other than 1, the driver closes the socket, and the close event that answers
\* (the stop flag not set) is handled as an unclean close: setState('loading')
\* is reported, not 'stopped', and a reconnect is scheduled.
C12_UnsupportedVersionReconnects ==
  /\ [][(lastOp'.op = "onmessage" /\ socket'.first = "version" /\ socket.first = "none") =>
          /\ log' = <<Call("socket.close", "", "", <<>>)>>
          /\ socket'.readyState = "CLOSING"]_vars
  /\ [][(socket.first = "version" /\ ~stop /\ lastOp'.op = "onclose") =>
          /\ HasSetState(log', "loading")
          /\ ~HasSetState(log', "stopped")
          /\ state'.name = "loading"
          /\ ConnectTimers(timers') # {}]_vars

\* the calls by which a message has an effect: a Buffer push, a reset (new
\* Buffer, reset callback), a setState
IsProcessing(c) ==
  c.call \in {"buf.pushEvent", "buf.pushText", "getBuffer", "reset", "setState",
              "new Clock", "new NullClock"}

\* C13: a first message that is an ALiS header of an unsupported version, or of
\* version 1 with a compression algorithm other than 0, only closes the socket;
\* from then on no message is given to a handler of that socket, and until the
\* close event no Buffer push, reset, offline transition or setState occurs.
C13_NothingAfterUnsupported ==
  /\ [][(lastOp'.op = "onmessage" /\ socket.first = "none"
         /\ socket'.first \in {"version", "compression"}) =>
          /\ log' = <<Call("socket.close", "", "", <<>>)>>
          /\ socket'.readyState = "CLOSING"
          /\ UNCHANGED <<buf, clock, state>>]_vars
  /\ [][socket.first \in {"version", "compression"} => lastOp'.op # "onmessage"]_vars
  /\ [][(socket.first \in {"version", "compression"} /\ lastOp'.op # "onclose") =>
          \A i \in 1..Len(log') : ~IsProcessing(log'[i])]_vars

\* a compressed ALiS v1 header arrived on a socket opened after a stream played:
\* the socket is closing with the stream handler bound
C13_Witness ==
  /\ socket.first = "compression"
  /\ socket.readyState = "CLOSING"
  /\ socket.onmessage = "handleStreamMessage"
  /\ lastOp.op = "onmessage"
  /\ reconnectAttempt > 0

DecoderHandlers == {"handleJsonMessage", "handleStreamMessage", "handleRawTextMessage"}

\* C14 as stated: once the first message of a socket has been inspected the
\* handler bound to the socket is one of the JSON, ALiS v1 stream and raw-text
\* handlers, it never changes while the socket lives, no later message is given
\* to detection, and every new socket starts with detection.
C14_HandlerIsDecoderAfterFirst ==
  /\ [][socket'.first # "none" => socket'.onmessage \in DecoderHandlers]_vars
  /\ [][(socket.first # "none" /\ socket'.first # "none") =>
          socket'.onmessage = socket.onmessage]_vars
  /\ [][(lastOp'.op = "onmessage" /\ socket.first # "none") =>
          socket.onmessage # "detectProtocol"]_vars
  /\ [][HasCall(log', "new WebSocket") =>
          socket'.first = "none" /\ socket'.onmessage = "detectProtocol"]_vars

\* the handler the first message selects; none for an unsupported ALiS version
HandlerFor(first) ==
  CASE first = "json" -> "handleJsonMessage"
    [] first \in {"alis", "compression"} -> "handleStreamMessage"
    [] first \in {"geometry", "raw"} -> "handleRawTextMessage"
    [] OTHER -> "detectProtocol"

\* C14, amended: detection runs at most once per socket. The first message
\* selects the handler by its kind, and that handler stays bound while the
\* socket lives; an ALiS header of an unsupported version selects none, the
\* socket is then closing or closed with detection still bound, and no message
\* reaches it. No message after the first is given to detection, and every new
\* socket starts with detection.
C14_DetectionOncePerSocket ==
  /\ [][/\ socket'.onmessage = HandlerFor(socket'.first)
        /\ socket'.first = "version" => socket'.readyState \in {"CLOSING", "CLOSED"}]_vars
  /\ [][(socket.first # "none" /\ socket'.first # "none") =>
          socket'.onmessage = socket.onmessage]_vars
  /\ [][(lastOp'.op = "onmessage" /\ socket.first # "none") =>
          socket.onmessage # "detectProtocol"]_vars
  /\ [][HasCall(log', "new WebSocket") =>
          socket'.first = "none" /\ socket'.onmessage = "detectProtocol"]_vars

\* on a socket opened by a reconnect, a second raw message was handled by the
\* raw-text handler the first one selected
C14_Witness ==
  /\ socket.first = "raw"
  /\ socket.onmessage = "handleRawTextMessage"
  /\ lastOp.op = "onmessage"
  /\ Len(buf.queue) = 2
  /\ reconnectAttempt > 0

\* C15: at most one Buffer is active (created and not stopped) in every state,
\* and it is the one the driver holds; every creation of a Buffer, on socket
\* open and on reset, comes directly after buf.stop() of the Buffer held before,
\* if there was one.
C15_OneActiveBuffer ==
  /\ [][/\ activeBuffers' <= 1
        /\ activeBuffers' = IF buf'.defined /\ ~buf'.stopped THEN 1 ELSE 0]_vars
  /\ [][\A i \in 1..Len(log') :
          log'[i].call = "getBuffer" =>
            /\ lastOp'.op \in {"onopen", "onmessage"}
            /\ buf.defined => (i > 1 /\ log'[i - 1].call = "buf.stop")]_vars

\* a reset on a socket opened by a reconnect replaced the Buffer of the open
\* handler, which had replaced the one of the connection before
C15_Witness ==
  /\ lastOp.op = "onmessage"
  /\ HasCall(log, "buf.stop")
  /\ HasCall(log, "getBuffer")
  /\ activeBuffers = 1
  /\ reconnectAttempt > 0

\* C16: with play() called once, a socket is created only by play() and by the
\* reconnect timer, one at a time, and only when the socket held before does not
\* exist or is closed, so at most one socket is not closed; the reconnect timer
\* is scheduled only by a close event, at most one is pending, and while one is
\* pending the socket is closed.
C16_OneConnection ==
  /\ [][HasCall(log', "new WebSocket") =>
          /\ lastOp'.op \in {"play", "connect"}
          /\ log' = <<Call("new WebSocket", "", "", <<>>)>>
          /\ socket.readyState \in {"UNDEFINED", "CLOSED"}
          /\ lastOp'.op = "play" => socket.readyState = "UNDEFINED"
          /\ lastOp'.op = "connect" =>
               /\ Cardinality(ConnectTimers(timers)) = 1
               /\ ConnectTimers(timers') = {}]_vars
  /\ [][lastOp'.op \in {"play", "connect"} <=> HasCall(log', "new WebSocket")]_vars
  /\ [][/\ Cardinality(ConnectTimers(timers')) <= 1
        /\ ConnectTimers(timers') # {} => socket'.readyState = "CLOSED"]_vars
  /\ [][ConnectTimers(timers') \ ConnectTimers(timers) # {} => lastOp'.op = "onclose"]_vars

\* the reconnect timer of the second unclean close fired and opened a socket
C16_Witness ==
  /\ lastOp.op = "connect"
  /\ socket.readyState = "CONNECTING"
  /\ reconnectAttempt = 2
  /\ ConnectTimers(timers) = {}
  /\ ~stop

\* C17: the attempt counter becomes zero only when the stability timer fires; it
\* otherwise changes only by one, in an unclean close, which cancels the
\* stability timer and schedules the reconnect after reconnectDelay of the
\* counter before the close. So the k-th unclean close in a row with no
\* stability timer fired in between waits reconnectDelay(k - 1). Stability
\* timers are armed by the open handler only, for the fixed delay, and at most
\* one is pending.
C17_CounterResetOnlyByStabilityTimer ==
  /\ [][reconnectAttempt' # reconnectAttempt =>
          \/ /\ lastOp'.op = "resetReconnectAttempt"
             /\ reconnectAttempt' = 0
             /\ Cardinality(StabilityTimers(timers)) = 1
             /\ StabilityTimers(timers') = {}
          \/ /\ lastOp'.op = "onclose"
             /\ ~stop /\ ~CleanCode(lastOp'.code)
             /\ reconnectAttempt' = reconnectAttempt + 1]_vars
  /\ [][(lastOp'.op = "onclose" /\ ~stop /\ ~CleanCode(lastOp'.code)) =>
          /\ StabilityTimers(timers') = {}
          /\ reconnectAttempt' = reconnectAttempt + 1
          /\ \A t \in ConnectTimers(timers') : t.delay = reconnectDelay(reconnectAttempt)]_vars
  /\ [][\A t \in ConnectTimers(timers') :
          reconnectAttempt' >= 1 /\ t.delay = reconnectDelay(reconnectAttempt' - 1)]_vars
  /\ [][/\ Cardinality(StabilityTimers(timers')) <= 1
        /\ \A t \in StabilityTimers(timers') :
             /\ t.delay = StabilityDelay
             /\ t.id = successfulConnectionTimeout'
        /\ StabilityTimers(timers') \ StabilityTimers(timers) # {} =>
             lastOp'.op = "onopen"]_vars

\* the third connection in a row dropped before its stability timer fired: the
\* reconnect waits reconnectDelay(2) = 2000
C17_Witness ==
  /\ lastOp = Op("onclose", 1006, NoData)
  /\ reconnectAttempt = 3
  /\ StabilityTimers(timers) = {}
  /\ \E t \in timers : t.fn = "connect" /\ t.delay = 2000

\* what message m of a socket whose first message was of kind first adds to the
\* Buffer: the event of a JSON array, of an ALiS output or resize frame, the
\* text of a raw message; nothing for a reset, an offline message, the ALiS
\* header and a message that is not of the socket's protocol
ExpectedPushes(first, isFirst, m) ==
  CASE first = "json" ->
         IF m = TextMsg(JsonEvent) THEN <<Event(Num(1), "o", <<97>>)>> ELSE <<>>
    [] first = "alis" ->
         IF isFirst THEN <<>>
         ELSE IF m = BinMsg(FrameOutput) THEN <<Event(Num(1), "o", <<98>>)>>
         ELSE IF m = BinMsg(FrameResize) THEN <<Event(Num(2), "r", <<50, 120, 49>>)>>
         ELSE <<>>
    [] first \in {"geometry", "raw"} ->
         IF m.kind = "arraybuffer" THEN <<Event(Num(0), "o", utfDecode(m.bytes))>> ELSE <<>>
    [] OTHER -> <<>>

\* message m makes the driver replace the Buffer
ExpectedReset(first, isFirst, m) ==
  CASE first = "json" -> m \in {TextMsg(JsonReset), TextMsg(JsonResetNoTime)}
    [] first = "alis" -> ~isFirst /\ m = BinMsg(FrameReset)
    [] first = "geometry" -> isFirst
    [] OTHER -> FALSE

PushCalls(l) == SelectSeq(l, LAMBDA c : c.call \in {"buf.pushEvent", "buf.pushText"})

\* C18: every message of a JSON or raw-text socket, the first one included, and
\* every message after the header of an ALiS socket, is handled once: the
\* events it carries are appended to the Buffer's queue in arrival order, after
\* the events of the messages before it (or to the new Buffer if it starts with
\* a reset), none is left out and none is pushed twice; the Buffer emits them
\* from the head of the queue.
C18_NoEventDroppedOrReordered ==
  /\ [][lastOp'.op = "onmessage" =>
          LET m == lastOp'.data
              isFirst == socket.first = "none"
              pushes == ExpectedPushes(socket'.first, isFirst, m)
          IN /\ buf'.queue = (IF ExpectedReset(socket'.first, isFirst, m)
                                THEN <<>> ELSE buf.queue) \o pushes
             /\ Len(PushCalls(log')) = Len(pushes)
             /\ \A i \in 1..Len(pushes) :
                  PushCalls(log')[i].vals[Len(PushCalls(log')[i].vals)] = Str(pushes[i].data)]_vars
  /\ [][lastOp'.op = "bufEmit" =>
          /\ buf.queue = <<[time |-> log'[1].vals[1], kind |-> log'[1].name,
                            data |-> log'[1].vals[2].s]>> \o buf'.queue
          /\ log'[1].call = "feed"]_vars
  /\ [][lastOp'.op \notin {"onmessage", "bufEmit", "onopen"} => buf'.queue = buf.queue]_vars

\* an ALiS socket delivered an output frame and then a resize frame
C18_Witness ==
  /\ socket.first = "alis"
  /\ lastOp = Op("onmessage", 0, BinMsg(FrameResize))
  /\ buf.queue = <<Event(Num(1), "o", <<98>>), Event(Num(2), "r", <<50, 120, 49>>)>>

\* the terminal geometry <<cols, rows>> the raw messages carry
Geometry(m) ==
  CASE m = BinMsg(RawResizeSeq) -> <<80, 24>>
    [] m = BinMsg(RawScriptStart) -> <<2, 1>>
    [] OTHER -> <<>>

TextPush(m) == <<Call("buf.pushText", "", "", <<Str(utfDecode(m.bytes))>>)>>

\* C19: on a raw-text socket a reset is synthesized only from the first message
\* and only if it carries terminal geometry: with those columns and rows, time
\* 0 and no initial content, handled completely before the message's text is
\* pushed, so the text goes to the new Buffer. A first message without geometry
\* and every later message only push their text. On a socket whose first
\* message had no geometry the state is never playing.
C19_OneSynthesizedReset ==
  /\ [][(lastOp'.op = "onmessage" /\ socket.first = "none"
         /\ socket'.first \in {"geometry", "raw"}) =>
          LET m == lastOp'.data
          IN /\ socket'.first = "geometry" <=> Geometry(m) # <<>>
             /\ Geometry(m) # <<>> =>
                  /\ log' = ResetCalls(buf.defined, Num(Geometry(m)[1]), Num(Geometry(m)[2]),
                                       Num(0), Undefined) \o TextPush(m)
                  /\ buf'.queue = <<Event(Num(0), "o", utfDecode(m.bytes))>>
                  /\ buf'.baseStreamTime = Num(0)
                  /\ state'.name = "playing"
             /\ Geometry(m) = <<>> =>
                  /\ log' = TextPush(m)
                  /\ state' = state]_vars
  /\ [][(lastOp'.op = "onmessage" /\ socket.first \in {"geometry", "raw"}) =>
          /\ log' = IF lastOp'.data.kind = "arraybuffer" THEN TextPush(lastOp'.data) ELSE <<>>
          /\ state' = state]_vars
  /\ [][socket'.first = "raw" => state'.name # "playing"]_vars

\* the first message of a raw-text socket carried [COLUMNS="2" LINES="1"]: the
\* reset was handled and the text is the first item of the new Buffer
C19_Witness ==
  /\ lastOp = Op("onmessage", 0, BinMsg(RawScriptStart))
  /\ socket.first = "geometry"
  /\ state.name = "playing"
  /\ HasCall(log, "reset")
  /\ buf.queue = <<Event(Num(0), "o", RawScriptStart)>>

\* C20: after play(), once stop() has been called, setState('stopped', {reason:
\* 'ended'}) is eventually reported, given that close requests are answered and
\* timers fire; also when stop() is called while the socket is closed and a
\* reconnect is pending.
C20_StopLeadsToStopped ==
  (stop /\ socket.readyState # "UNDEFINED") ~> (state = Stopped)

====
